---------------------------- MODULE Spec2Model ----------------------------
(***************************************************************************)
(* A model of AdvancedInstagramOSINT (src/arivaigosint.py): the            *)
(* comprehensive_analysis pipeline, its rate-limited follower / followee   *)
(* enumerations, the nested per-item expansions and the digital-footprint  *)
(* fan-out.                                                                *)
(*                                                                         *)
(* Time is counted in ticks of 0.5 time units: asyncio.sleep(0.5) is one   *)
(* tick, asyncio.sleep(60) is 120 ticks.  A request to a source is         *)
(* instantaneous; a coroutine that is runnable runs before time advances   *)
(* (the asyncio event loop runs its ready callbacks before it sleeps).     *)
(* Every next() of a follower / followee iterator is one request to the    *)
(* source client (the code paces and catches per item).                    *)
(***************************************************************************)
EXTENDS Integers, Sequences, FiniteSets, TLC

VARIABLES
    inp,        \* the call's parameters and the world it runs against
    budget,     \* failures (other than rate limiting) the sources may still raise
    pc,         \* position of the main coroutine
    task,       \* the two enumeration coroutines handed to asyncio.gather
    gap,        \* spacing of the requests the two enumerations make
    net,        \* network_data, as _analyze_network builds it
    loop,       \* the per-item expansion loops of _analyze_network
    failed,     \* history: the secondary fetches that raised
    issued,     \* history: the secondary analyses that were entered
    profile_data, \* what _analyze_target_profile returned
    report,     \* analysis_data of comprehensive_analysis
    result,     \* what comprehensive_analysis returned
    files,      \* report files _generate_osint_report wrote
    foot,       \* footprint, as _analyze_digital_footprint builds it
    probe       \* the platform probes handed to asyncio.gather

netVars == <<task, gap, net, loop>>
topVars == <<profile_data, report, result, files>>
footVars == <<foot, probe>>
vars == <<inp, budget, pc, failed, issued, netVars, topVars, footVars>>

---------------------------------------------------------------------------
(* Bounds of the model *)

\* the largest limit / source length the function-level runs draw
MaxLimit == 3
\* attempts after which the source stops signalling rate limiting
MaxAttempts == 4
\* failures other than rate limiting a function-level run may inject
MaxFetchFaults == 1
\* the largest analysis depth a run is called with
MaxDepth == 3

(* Program constants *)

\* asyncio.sleep(0.5) after every collected item, in ticks
PacingTicks == 1
\* asyncio.sleep(60) after TooManyRequestsException, in ticks
BackoffTicks == 120
\* _fetch_followers(profile, session, limit=50)
FollowersLimit == 50
\* _fetch_followees(profile, session, limit=50)
FolloweesLimit == 50
\* ThreadPoolExecutor(max_workers=5)
PoolWidth == 5

---------------------------------------------------------------------------
(* The world: accounts are numbers, the target is account 0 *)

Tasks == {"followers", "followees"}
None == "None"

Min(a, b) == IF a <= b THEN a ELSE b

\* what profile.get_followers() / get_followees() of the target enumerate,
\* in the source's order; the two lists share the even accounts
get_followers == [k \in 1..inp.nFollowers |-> k]
get_followees == [k \in 1..inp.nFollowees |-> 2 * k]
Source(t) == IF t = "followers" THEN get_followers ELSE get_followees

---------------------------------------------------------------------------
(* _fetch_followers / _fetch_followees: one coroutine per task *)

IdleTask ==
    [st |-> "idle", limit |-> 0, orig |-> 0, acc |-> <<>>, timer |-> 0,
     attempts |-> 0, throttles |-> 0, requested |-> 0, waited |-> -1,
     observed |-> -1,
     \* history: the rate-limit signals that came before any item was collected
     barren |-> 0]

\* the call self._fetch_followers(profile, session, limit)
StartTask(limit) ==
    [IdleTask EXCEPT !.st = "ready", !.limit = limit, !.orig = limit,
                     !.attempts = 1]

LoopBreaks_OffByOne(i, limit) == i > limit

\* `if i >= limit: break`
LoopBreaks(i, limit) == i >= limit

BackoffWait_Growing(attempt) == BackoffTicks * attempt

Yielded_Reversed(src, i) == src[Len(src) - i]

\* the item the i-th turn of `for i, follower in enumerate(...)` receives
Yielded(src, i) == src[i + 1]

\* the wait after a rate-limit signal: asyncio.sleep(60) on every attempt
BackoffWait(attempt) == BackoffTicks

RetryLimit_Same(limit, collected) == limit

\* the limit of the recursive call: limit - len(followers)
RetryLimit(limit, collected) == limit - Len(collected)

Runnable(t) ==
    \/ task[t].st = "ready"
    \/ task[t].st = "sleep" /\ task[t].timer = 0

Wakes(t) == task[t].st = "backoff" /\ task[t].timer = 0

Terminal(t) == task[t].st \in {"done", "raised"}

NoGap == [since |-> -1, last |-> -1, min |-> -1]

\* the request's effect on the spacing record
Requested ==
    [since |-> 0, last |-> gap.since, min |->
        IF gap.since = -1 THEN gap.min
        ELSE IF gap.min = -1 THEN gap.since ELSE Min(gap.min, gap.since)]

\* the requests of an attempt at which the run lets the source fail: its
\* first ones, and the one made after `limit` items were collected
MayFail(i, limit) == i <= inp.win \/ i = limit

\* one turn of `for i, follower in enumerate(profile.get_followers())`:
\* the iterator's next(), then the loop body up to its await
FetchNext(t) ==
    /\ Runnable(t)
    /\ gap' = Requested
    /\ LET me == task[t]
           i == Len(me.acc)
           src == Source(t)
           asked == [me EXCEPT !.requested = @ + 1, !.timer = 0,
                               !.observed = IF me.waited # -1 THEN me.waited ELSE @,
                               !.waited = -1]
       IN  \/ \* the source signals rate limiting
              /\ me.attempts < inp.maxAtt
              /\ MayFail(i, me.limit)
              /\ task' = [task EXCEPT ![t] =
                            [asked EXCEPT !.st = "backoff",
                                          !.throttles = @ + 1,
                                          !.barren = IF i = 0 THEN @ + 1 ELSE @,
                                          !.timer = BackoffWait(me.attempts),
                                          !.waited = 0]]
              /\ UNCHANGED <<budget, failed>>
           \/ \* the source raises another exception: it leaves the coroutine
              /\ budget > 0
              /\ MayFail(i, me.limit)
              /\ budget' = budget - 1
              /\ failed' = failed \cup {t}
              /\ task' = [task EXCEPT ![t] = [asked EXCEPT !.st = "raised"]]
           \/ \* the source yields its next item, or is exhausted
              /\ UNCHANGED <<budget, failed>>
              /\ IF i < Len(src) /\ ~LoopBreaks(i, me.limit)
                 THEN task' = [task EXCEPT ![t] =
                                 [asked EXCEPT !.acc = Append(me.acc, Yielded(src, i)),
                                               !.st = "sleep",
                                               !.timer = PacingTicks]]
                 ELSE task' = [task EXCEPT ![t] = [asked EXCEPT !.st = "done"]]
    /\ UNCHANGED <<inp, pc, net, loop, issued, topVars, footVars>>

\* the except branch after its sleep:
\* return await self._fetch_followers(profile, session, limit - len(followers))
Retry(t) ==
    /\ Wakes(t)
    /\ task' = [task EXCEPT ![t] =
                  [@ EXCEPT !.st = "ready",
                            !.limit = RetryLimit(task[t].limit, task[t].acc),
                            !.acc = <<>>,
                            !.requested = 0,
                            !.attempts = @ + 1]]
    /\ UNCHANGED <<inp, budget, pc, gap, net, loop, failed, issued, topVars, footVars>>

\* no coroutine is runnable: the event loop sleeps until the next timer
Timers == {task[t].timer : t \in {u \in Tasks : task[u].timer > 0}}
NextTimer == CHOOSE d \in Timers : \A e \in Timers : d <= e

Advance ==
    /\ \A t \in Tasks : ~Runnable(t) /\ ~Wakes(t)
    /\ Timers # {}
    /\ LET d == NextTimer
       IN  /\ task' = [t \in Tasks |->
                          [task[t] EXCEPT
                              !.timer = IF @ > 0 THEN @ - d ELSE 0,
                              !.waited = IF @ # -1 /\ task[t].st = "backoff"
                                         THEN @ + d ELSE @]]
           /\ gap' = [gap EXCEPT !.since = IF @ = -1 THEN -1
                                           ELSE Min(@ + d, BackoffTicks)]
    /\ UNCHANGED <<inp, budget, pc, net, loop, failed, issued, topVars, footVars>>

---------------------------------------------------------------------------
(* comprehensive_analysis and _analyze_target_profile *)

\* a dict's get(key, default); a record stands for the dict
DictGet(d, key, default) == IF key \in DOMAIN d THEN d[key] ELSE default

\* the value None of profile_data
NoProfile == [ok |-> FALSE]

Empty == [status |-> "unset"]

EmptyFootprint ==
    [external_links |-> Empty, domain_analysis |-> Empty,
     web_scraping |-> Empty, cross_platform_presence |-> Empty]

NoProbe == [res |-> <<>>, order |-> <<>>]

EmptyReport ==
    [profile_analysis |-> Empty, network_analysis |-> Empty,
     digital_footprint |-> Empty, security_analysis |-> Empty,
     timeline_analysis |-> Empty, behavioral_analysis |-> Empty]

Branches == {"network", "footprint", "timeline", "behavioral"}

\* what the post enumeration of _analyze_profile_content does: it raises, it
\* yields nothing, or it yields posts (`async for` over an iterator that has
\* no __aiter__, as instaloader's NodeIterator, always raises)
PostsOutcomes == {"raise", "empty", "posts"}

\* _analyze_profile_content: its own except turns a raise into an error field
analyze_profile_content(outcome) ==
    IF inp.private THEN "private_account"
    ELSE IF outcome = "raise" THEN "error"
    ELSE IF outcome = "empty" THEN "no_posts_available"
    ELSE "analyzed"

\* the profile record _analyze_target_profile builds
ProfileRecord(content) ==
    [ok |-> TRUE,
     basic_info |-> [is_private |-> inp.private,
                     \* profile.biography or "N/A"
                     biography |-> IF inp.bio THEN "bio" ELSE "N/A",
                     external_url |-> IF inp.url THEN "url" ELSE "N/A"],
     content_analysis |-> content]

TargetProfile_Uncaught(outcome) ==
    IF outcome = "raise" /\ ~inp.private THEN NoProfile
    ELSE ProfileRecord(analyze_profile_content(outcome))

\* what _analyze_target_profile returns once the profile is fetched
TargetProfile(outcome) == ProfileRecord(analyze_profile_content(outcome))

\* _analyze_target_profile: the fetch, then the record; any exception gives None
analyze_target_profile ==
    /\ pc = "start"
    /\ \/ \* Profile.from_username raises
          /\ profile_data' = NoProfile
          /\ failed' = failed \cup {"primary"}
          /\ UNCHANGED issued
       \/ \* the record is built; the post enumeration of the content
          \* analysis may fail inside _analyze_profile_content
          /\ \E outcome \in PostsOutcomes :
               /\ profile_data' = TargetProfile(outcome)
               /\ failed' = IF outcome = "raise" /\ ~inp.private
                            THEN failed \cup {"posts"} ELSE failed
          /\ issued' = IF inp.private THEN issued ELSE issued \cup {"posts"}
       \/ \* reading the profile's attributes for the record raises
          /\ profile_data' = NoProfile
          /\ failed' = failed \cup {"primary"}
          /\ UNCHANGED issued
    /\ pc' = "profiled"
    /\ UNCHANGED <<inp, budget, netVars, report, result, files, footVars>>

ReturnsNone_Never(pd) == FALSE

\* `if not profile_data: return None`
ReturnsNone(pd) == ~pd.ok

LaunchesBranches_Always(pd) == TRUE

\* `if not profile_data.get("is_private", True)`
LaunchesBranches(pd) == ~DictGet(pd, "is_private", TRUE)

\* comprehensive_analysis after `await self._analyze_target_profile(username)`
comprehensive_analysis ==
    /\ pc = "profiled"
    /\ IF ReturnsNone(profile_data)
       THEN /\ result' = None
            /\ pc' = "done"
            /\ UNCHANGED report
       ELSE /\ report' = [report EXCEPT !.profile_analysis = profile_data]
            /\ IF ~profile_data.ok
               THEN \* None has no get: the AttributeError leaves the call
                    /\ result' = "exception"
                    /\ pc' = "done"
               ELSE /\ pc' = IF LaunchesBranches(profile_data) THEN "network"
                             ELSE "report"
                    /\ UNCHANGED result
    /\ UNCHANGED <<inp, budget, failed, issued, netVars, profile_data, files,
                   footVars>>

\* `if save_report: self._generate_osint_report(analysis_data)`, then the return
generate_osint_report ==
    /\ pc = "report"
    /\ files' = IF inp.save THEN files + 1 ELSE files
    /\ result' = "report"
    /\ pc' = "done"
    /\ UNCHANGED <<inp, budget, failed, issued, netVars, profile_data, report,
                   footVars>>

---------------------------------------------------------------------------
(* _analyze_network *)

\* followers[:5] and followees[:5]
ExpansionSample == 5
\* `if i >= 10: break` of the second-degree enumeration
SecondDegreeLimit == 10
\* sorted(...)[:10] of the common-followed tally
CommonTop == 10

Take(seq, n) == SubSeq(seq, 1, Min(n, Len(seq)))

\* what get_followers() / get_followees() of a sampled account enumerate
FollowersOf(a) == [k \in 1..((a % 3) * 6) |-> 1000 + 100 * a + k]
FolloweesOf(a) == [k \in 1..((3 * a) % 13) |-> 300 + k]

Unset == [status |-> "unset", data |-> <<>>]
NoData == [status |-> "no_data", data |-> <<>>]

EmptyNet ==
    [status |-> "", error |-> FALSE,
     connections |-> [set |-> FALSE, followers_sample |-> <<>>,
                      followees_sample |-> <<>>],
     mutual_connections |-> {},
     second_degree_connections |-> Unset,
     common_followed_accounts |-> Unset]

NoLoop == [idx |-> 0, second |-> <<>>, order |-> <<>>, count |-> <<>>,
           expanded |-> 0, raisedAt |-> 0]

\* profile = Profile.from_username(...), then the gather is started
analyze_network ==
    /\ pc = "network"
    /\ \/ \* the profile fetch raises: caught by the function's except
          /\ budget > 0
          /\ budget' = budget - 1
          /\ failed' = failed \cup {"network_profile"}
          /\ net' = [EmptyNet EXCEPT !.error = TRUE]
          /\ pc' = "returned"
          /\ UNCHANGED task
       \/ /\ inp.private
          /\ net' = [EmptyNet EXCEPT !.status = "private_account"]
          /\ pc' = "returned"
          /\ UNCHANGED <<budget, failed, task>>
       \/ /\ ~inp.private
          /\ net' = EmptyNet
          /\ task' = [t \in Tasks |->
                        IF t = "followers" THEN StartTask(FollowersLimit)
                        ELSE StartTask(FolloweesLimit)]
          /\ pc' = "gather"
          /\ UNCHANGED <<budget, failed>>
    /\ issued' = issued \cup {"network"}
    /\ UNCHANGED <<inp, gap, loop, topVars, footVars>>

GatherResult_FailAll(t) ==
    IF \E u \in Tasks : task[u].st = "raised" THEN <<>> ELSE task[t].acc

\* followers_result if not isinstance(followers_result, Exception) else []
GatherResult(t) == IF task[t].st = "raised" THEN <<>> ELSE task[t].acc

Range(seq) == {seq[k] : k \in 1..Len(seq)}

Mutual_Union(followers, followees) == Range(followers) \cup Range(followees)

\* set(followers) & set(followees)
Mutual(followers, followees) == Range(followers) \cap Range(followees)

\* asyncio.gather(*tasks, return_exceptions=True) has both results
analyze_network_gathered ==
    /\ pc = "gather"
    /\ \A t \in Tasks : Terminal(t)
    /\ LET followers == GatherResult("followers")
           followees == GatherResult("followees")
       IN  net' = [net EXCEPT
                     !.connections = [set |-> TRUE,
                                      followers_sample |-> followers,
                                      followees_sample |-> followees],
                     !.mutual_connections = Mutual(followers, followees)]
    /\ loop' = [NoLoop EXCEPT !.idx = 1]
    /\ task' = [t \in Tasks |-> IdleTask]
    /\ gap' = NoGap
    /\ pc' = IF inp.depth > 1 THEN "second_degree" ELSE "common_followed"
    /\ UNCHANGED <<inp, budget, failed, issued, topVars, footVars>>

\* return second_degree if second_degree else {"status": "no_data"}
SecondDegreeResult(second) ==
    IF DOMAIN second = {} THEN NoData
    ELSE [status |-> "data", data |-> second]

SampledFollowers == Take(net.connections.followers_sample, ExpansionSample)

\* one turn of `for follower in followers[:5]`, or the function's return
analyze_second_degree_connections ==
    /\ pc = "second_degree"
    /\ IF loop.idx <= Len(SampledFollowers)
       THEN LET follower == SampledFollowers[loop.idx]
            IN  \/ \* the profile fetch or the enumeration raises: the
                   \* except around the loop ends the function
                   /\ budget > 0
                   /\ budget' = budget - 1
                   /\ failed' = failed \cup {"second_degree"}
                   /\ net' = [net EXCEPT !.second_degree_connections =
                                 SecondDegreeResult(loop.second)]
                   /\ loop' = [loop EXCEPT !.idx = 1, !.raisedAt = follower]
                   /\ pc' = "common_followed"
                \/ /\ loop' = [loop EXCEPT
                        !.idx = @ + 1,
                        !.second = (follower :>
                            Take(FollowersOf(follower), SecondDegreeLimit)) @@ @]
                   /\ UNCHANGED <<budget, failed, net, pc>>
       ELSE /\ net' = [net EXCEPT !.second_degree_connections =
                          SecondDegreeResult(loop.second)]
            /\ loop' = [loop EXCEPT !.idx = 1]
            /\ pc' = "common_followed"
            /\ UNCHANGED <<budget, failed>>
    /\ UNCHANGED <<inp, task, gap, issued, topVars, footVars>>

Tally_Lost(order, count, seq) ==
    [order |-> order \o SelectSeq(seq, LAMBDA a : a \notin DOMAIN count),
     count |-> [a \in DOMAIN count \cup Range(seq) |-> 1]]

\* common_followed[f.username] += 1, for the items of seq in order
RECURSIVE Tally(_, _, _)
Tally(order, count, seq) ==
    IF seq = <<>> THEN [order |-> order, count |-> count]
    ELSE LET a == Head(seq)
         IN  IF a \in DOMAIN count
             THEN Tally(order, [count EXCEPT ![a] = @ + 1], Tail(seq))
             ELSE Tally(Append(order, a), (a :> 1) @@ count, Tail(seq))

\* sorted(items, key=lambda x: x[1], reverse=True): stable, larger counts first
RECURSIVE InsertByCount(_, _, _)
InsertByCount(sorted, a, count) ==
    IF sorted = <<>> THEN <<a>>
    ELSE IF count[Head(sorted)] >= count[a]
         THEN <<Head(sorted)>> \o InsertByCount(Tail(sorted), a, count)
         ELSE <<a>> \o sorted

RECURSIVE SortedByCount(_, _)
SortedByCount(order, count) ==
    IF order = <<>> THEN <<>>
    ELSE InsertByCount(SortedByCount(SubSeq(order, 1, Len(order) - 1), count),
                       order[Len(order)], count)

\* dict(sorted(...)[:10]) or {"status": "no_data"}
CommonFollowedResult(order, count) ==
    IF order = <<>> THEN NoData
    ELSE [status |-> "data",
          data |-> [k \in 1..Min(CommonTop, Len(order)) |->
                      LET a == SortedByCount(order, count)[k]
                      IN  [account |-> a, count |-> count[a]]]]

SampledFollowees == Take(net.connections.followees_sample, ExpansionSample)

\* one turn of `for followee in followees[:5]`, or the function's return and
\* the rest of _analyze_network
analyze_common_followed ==
    /\ pc = "common_followed"
    /\ IF loop.idx <= Len(SampledFollowees)
       THEN LET followee == SampledFollowees[loop.idx]
                src == FolloweesOf(followee)
            IN  \/ \* the profile fetch raises
                   /\ budget > 0
                   /\ budget' = budget - 1
                   /\ failed' = failed \cup {"common_followed"}
                   /\ net' = [net EXCEPT !.common_followed_accounts =
                                 CommonFollowedResult(loop.order, loop.count)]
                   /\ UNCHANGED loop
                   /\ pc' = "returned"
                \/ \* the enumeration raises after k items were tallied
                   /\ budget > 0
                   /\ budget' = budget - 1
                   /\ failed' = failed \cup {"common_followed"}
                   /\ \E k \in 0..(Len(src) - 1) :
                        LET t == Tally(loop.order, loop.count, Take(src, k))
                        IN  /\ loop' = [loop EXCEPT !.order = t.order,
                                                    !.count = t.count,
                                                    !.expanded = @ + 1]
                            /\ net' = [net EXCEPT !.common_followed_accounts =
                                          CommonFollowedResult(t.order, t.count)]
                   /\ pc' = "returned"
                \/ \* every followee of the account is tallied
                   /\ LET t == Tally(loop.order, loop.count, src)
                      IN  loop' = [loop EXCEPT !.idx = @ + 1,
                                               !.order = t.order,
                                               !.count = t.count,
                                               !.expanded = @ + 1]
                   /\ UNCHANGED <<budget, failed, net, pc>>
       ELSE /\ net' = [net EXCEPT !.common_followed_accounts =
                          CommonFollowedResult(loop.order, loop.count)]
            /\ pc' = "returned"
            /\ UNCHANGED <<budget, failed, loop>>
    /\ UNCHANGED <<inp, task, gap, issued, topVars, footVars>>

\* the largest excess of a source list over the sample limit
MaxOver == 1
\* attempts after which the source stops rate limiting a network analysis
MaxNetAttempts == 2
\* the latest position of an attempt at which such a run is rate limited
MaxThrottleIdx == 1
\* failures a network analysis may inject
MaxNetFaults == 2

NetSizes == {0, FollowersLimit, FollowersLimit + MaxOver}

InitNet ==
    /\ \E nf \in NetSizes, ne \in NetSizes, d \in {1, 2}, p \in BOOLEAN :
          inp = [nFollowers |-> nf, nFollowees |-> ne, private |-> p,
                 url |-> FALSE, bio |-> FALSE,
                 depth |-> d, save |-> FALSE,
                 maxAtt |-> MaxNetAttempts, win |-> MaxThrottleIdx]
    /\ budget = MaxNetFaults
    /\ pc = "network"
    /\ task = [t \in Tasks |-> IdleTask]
    /\ gap = NoGap
    /\ net = EmptyNet
    /\ loop = NoLoop
    /\ failed = {}
    /\ issued = {}
    /\ profile_data = NoProfile
    /\ report = EmptyReport
    /\ result = "running"
    /\ files = 0
    /\ foot = EmptyFootprint
    /\ probe = NoProbe

NextNet ==
    \/ analyze_network
    \/ \E t \in Tasks : FetchNext(t)
    \/ \E t \in Tasks : Retry(t)
    \/ Advance
    \/ analyze_network_gathered
    \/ analyze_second_degree_connections
    \/ analyze_common_followed

SpecNet == InitNet /\ [][NextNet]_vars

---------------------------------------------------------------------------
(* Cancellation of the task that runs the analysis *)

Waiting(t) == task[t].st \in {"sleep", "backoff"} /\ task[t].timer > 0

\* the task is cancelled (Task.cancel(), as asyncio.run does on an interrupt)
\* while _analyze_network awaits the gather and an enumeration sleeps: the
\* gather cancels both coroutines, whose asyncio.sleep raises CancelledError;
\* no except of _fetch_followers / _fetch_followees matches it
Cancel ==
    /\ pc = "gather"
    /\ \E t \in Tasks : Waiting(t)
    /\ task' = [t \in Tasks |->
                  IF Terminal(t) THEN task[t]
                  ELSE [task[t] EXCEPT !.st = "cancelled", !.timer = 0]]
    /\ \/ \* CancelledError is a BaseException (Python 3.8 and later): the
          \* `except Exception` of _analyze_network does not catch it and it
          \* leaves comprehensive_analysis
          /\ pc' = "cancelled"
          /\ result' = "CancelledError"
          /\ UNCHANGED net
       \/ \* CancelledError is an Exception (Python 3.7): the except of
          \* _analyze_network records it as network_data["error"]
          /\ pc' = "returned"
          /\ net' = [net EXCEPT !.error = TRUE]
          /\ UNCHANGED result
    /\ UNCHANGED <<inp, budget, gap, loop, failed, issued, profile_data, report,
                   files, footVars>>

NextCancel ==
    \/ analyze_network
    \/ \E t \in Tasks : FetchNext(t)
    \/ \E t \in Tasks : Retry(t)
    \/ Advance
    \/ analyze_network_gathered
    \/ analyze_second_degree_connections
    \/ analyze_common_followed
    \/ Cancel

SpecCancel == InitNet /\ [][NextCancel]_vars

---------------------------------------------------------------------------
(* Function-level runs of _fetch_followers / _fetch_followees *)

InitFetch ==
    /\ \E n \in 0..(MaxLimit + 1) :
          inp = [nFollowers |-> n, nFollowees |-> n, private |-> FALSE,
                 url |-> FALSE, bio |-> FALSE, depth |-> 2, save |-> FALSE,
                 maxAtt |-> MaxAttempts, win |-> MaxLimit + 1]
    /\ budget = MaxFetchFaults
    /\ pc = "fetch"
    /\ \E t \in Tasks, limit \in 0..MaxLimit :
          task = [u \in Tasks |-> IF u = t THEN StartTask(limit) ELSE IdleTask]
    /\ gap = NoGap
    /\ net = EmptyNet
    /\ loop = NoLoop
    /\ failed = {}
    /\ issued = {}
    /\ profile_data = NoProfile
    /\ report = EmptyReport
    /\ result = "running"
    /\ files = 0
    /\ foot = EmptyFootprint
    /\ probe = NoProbe

NextFetch ==
    \/ \E t \in Tasks : FetchNext(t)
    \/ \E t \in Tasks : Retry(t)
    \/ Advance

SpecFetch == InitFetch /\ [][NextFetch]_vars

---------------------------------------------------------------------------
(* _analyze_digital_footprint *)

Platforms_Six ==
    <<"twitter", "linkedin", "tiktok", "facebook", "youtube", "github">>

\* platforms, in the dict's order
Platforms == <<"twitter", "linkedin", "tiktok", "facebook">>
\* the status a HEAD of the platform's URL answers with
PlatformStatus(p) == IF p \in {"twitter", "tiktok"} THEN 200 ELSE 404

RecordTypes == {"A", "AAAA", "MX", "TXT", "NS"}
\* the record types the domain has; resolve() raises NoAnswer for the others
HasRecords == {"A", "MX", "NS"}

\* the entry of _analyze_digital_footprint, up to its first await
analyze_digital_footprint ==
    /\ pc = "footprint"
    /\ foot' = EmptyFootprint
    /\ issued' = issued \cup {"footprint"}
    /\ pc' = IF profile_data.basic_info.external_url # "N/A"
             THEN "external_url" ELSE "presence"
    /\ UNCHANGED <<inp, budget, failed, netVars, topVars, probe>>

\* _analyze_external_url: any exception is recorded as analysis["error"]
analyze_external_url ==
    /\ pc = "external_url"
    /\ \/ /\ foot' = [foot EXCEPT !.external_links =
                        [status |-> "fetched", error |-> FALSE]]
          /\ UNCHANGED <<budget, failed>>
       \/ /\ budget > 0
          /\ budget' = budget - 1
          /\ failed' = failed \cup {"external_url"}
          /\ foot' = [foot EXCEPT !.external_links =
                        [status |-> "unset", error |-> TRUE]]
    /\ pc' = "domain"
    /\ UNCHANGED <<inp, issued, netVars, topVars, probe>>

\* dns_records or {"status": "no_records"}
DnsResult(found) ==
    IF found = {} THEN [status |-> "no_records", types |-> {}]
    ELSE [status |-> "records", types |-> found]

DnsAsked_Aborted(whois_raised) == IF whois_raised THEN {} ELSE RecordTypes

\* the lookups of `for record_type in ['A', 'AAAA', 'MX', 'TXT', 'NS']`: the
\* loop follows the inner try / except of the WHOIS step, whatever its outcome
DnsAsked(whois_raised) == RecordTypes

\* _analyze_domain: WHOIS, the five DNS lookups, the archive query
analyze_domain ==
    /\ pc = "domain"
    /\ \E bad \in SUBSET ({"whois", "wayback"} \cup RecordTypes) :
         /\ Cardinality(bad) <= budget
         /\ budget' = budget - Cardinality(bad)
         /\ failed' = failed \cup bad
         /\ foot' = [foot EXCEPT !.domain_analysis =
                       [status |-> "analyzed",
                        domain |-> "netloc",
                        whois_error |-> "whois" \in bad,
                        \* `except: continue` for a lookup that raises
                        dns_records |->
                            DnsResult((HasRecords \cap DnsAsked("whois" \in bad))
                                          \ bad),
                        dns_asked |-> DnsAsked("whois" \in bad),
                        wayback_asked |-> TRUE,
                        wayback_error |-> "wayback" \in bad]]
    /\ pc' = "scrape"
    /\ UNCHANGED <<inp, issued, netVars, topVars, probe>>

\* _scrape_external_url
scrape_external_url ==
    /\ pc = "scrape"
    /\ \/ /\ foot' = [foot EXCEPT !.web_scraping =
                        [status |-> "scraped", error |-> FALSE]]
          /\ UNCHANGED <<budget, failed>>
       \/ /\ budget > 0
          /\ budget' = budget - 1
          /\ failed' = failed \cup {"scrape"}
          /\ foot' = [foot EXCEPT !.web_scraping =
                        [status |-> "unset", error |-> TRUE]]
    /\ pc' = "presence"
    /\ UNCHANGED <<inp, issued, netVars, topVars, probe>>

\* the call of _check_cross_platform_presence(username, emails): one
\* _check_platform task per platform
check_cross_platform_presence ==
    /\ pc = "presence"
    /\ IF profile_data.basic_info.biography = ""
       THEN \* `emails` is bound only under `if bio:`; the UnboundLocalError
            \* leaves _analyze_digital_footprint (a record built by
            \* _analyze_target_profile never has an empty biography)
            /\ pc' = "raised"
            /\ failed' = failed \cup {"footprint"}
            /\ UNCHANGED probe
       ELSE /\ probe' = [res |-> [k \in 1..Len(Platforms) |-> "pending"],
                         order |-> <<>>]
            /\ pc' = "probing"
            /\ UNCHANGED failed
    /\ UNCHANGED <<inp, budget, issued, netVars, topVars, foot>>

\* what _check_platform returns
CheckPlatformResult(status, raised) ==
    IF raised THEN "error"
    ELSE IF status = 200 THEN "found" ELSE "not_found"

\* the task of platform number k completes
check_platform(k) ==
    /\ pc = "probing"
    /\ probe.res[k] = "pending"
    /\ \/ /\ probe' = [res |-> [probe.res EXCEPT ![k] =
                          CheckPlatformResult(PlatformStatus(Platforms[k]), FALSE)],
                       order |-> Append(probe.order, k)]
          /\ UNCHANGED <<budget, failed>>
       \/ /\ budget > 0
          /\ budget' = budget - 1
          /\ failed' = failed \cup {Platforms[k]}
          /\ probe' = [res |-> [probe.res EXCEPT ![k] =
                          CheckPlatformResult(PlatformStatus(Platforms[k]), TRUE)],
                       order |-> Append(probe.order, k)]
    /\ UNCHANGED <<inp, pc, issued, netVars, topVars, foot>>

GatherResults_AsCompleted ==
    [k \in 1..Len(Platforms) |-> probe.res[probe.order[k]]]

\* results of asyncio.gather(*tasks): in the order of the tasks
GatherResults == [k \in 1..Len(Platforms) |-> probe.res[k]]

\* for platform, result in zip(platforms.keys(), results)
Presence(results) ==
    [p \in Range(Platforms) |->
        results[CHOOSE k \in 1..Len(Platforms) : Platforms[k] = p]]

\* the gather has every result: presence is assembled, the footprint returned
cross_platform_gathered ==
    /\ pc = "probing"
    /\ \A k \in 1..Len(Platforms) : probe.res[k] # "pending"
    /\ foot' = [foot EXCEPT !.cross_platform_presence =
                  [status |-> "probed", platforms |-> Presence(GatherResults)]]
    /\ pc' = "returned"
    /\ UNCHANGED <<inp, budget, failed, issued, netVars, topVars, probe>>

\* failures a footprint analysis may inject
MaxFootFaults == 4

InitFoot ==
    /\ \E u \in BOOLEAN, b \in BOOLEAN :
          inp = [nFollowers |-> 0, nFollowees |-> 0, private |-> FALSE,
                 url |-> u, bio |-> b, depth |-> 2, save |-> FALSE,
                 maxAtt |-> 1, win |-> 0]
    /\ budget = MaxFootFaults
    /\ pc = "footprint"
    /\ task = [t \in Tasks |-> IdleTask]
    /\ gap = NoGap
    /\ net = EmptyNet
    /\ loop = NoLoop
    /\ failed = {}
    /\ issued = {}
    /\ profile_data = TargetProfile("posts")
    /\ report = EmptyReport
    /\ result = "running"
    /\ files = 0
    /\ foot = EmptyFootprint
    /\ probe = NoProbe

NextFoot ==
    \/ analyze_digital_footprint
    \/ analyze_external_url
    \/ analyze_domain
    \/ scrape_external_url
    \/ check_cross_platform_presence
    \/ \E k \in 1..Len(Platforms) : check_platform(k)
    \/ cross_platform_gathered

SpecFoot == InitFoot /\ [][NextFoot]_vars

---------------------------------------------------------------------------
(* The program: comprehensive_analysis from its call *)

Init ==
    /\ \E p \in BOOLEAN, u \in BOOLEAN, b \in BOOLEAN, d \in 1..MaxDepth,
          sv \in BOOLEAN :
          inp = [nFollowers |-> 0, nFollowees |-> 0, private |-> p,
                 url |-> u, bio |-> b, depth |-> d, save |-> sv,
                 maxAtt |-> 1, win |-> 0]
    /\ budget = 0
    /\ pc = "start"
    /\ task = [t \in Tasks |-> IdleTask]
    /\ gap = NoGap
    /\ net = EmptyNet
    /\ loop = NoLoop
    /\ failed = {}
    /\ issued = {}
    /\ profile_data = NoProfile
    /\ report = EmptyReport
    /\ result = "running"
    /\ files = 0
    /\ foot = EmptyFootprint
    /\ probe = NoProbe

\* pc = "network" is where _analyze_network is entered; its actions and those
\* of the later branches are the disjuncts of NextNet and NextFoot
Next ==
    \/ analyze_target_profile
    \/ comprehensive_analysis
    \/ generate_osint_report

Spec == Init /\ [][Next]_vars



---------------------------------------------------------------------------
(* The scores: _calculate_advanced_metrics, _security_analysis,             *)
(* _analyze_posting_patterns and _detect_suspicious_patterns. A score is a  *)
(* fraction n / d with d > 0. Where the function of src/a.py differs from   *)
(* the one of src/arivaigosint.py it is modelled too, under the prefix a_.  *)

Max(a, b) == IF a >= b THEN a ELSE b

Frac(n, d) == [n |-> n, d |-> d]
FracEq(a, b) == a.n * b.d = b.n * a.d
FracLE(a, b) == a.n * b.d <= b.n * a.d

Min100_Unclamped(n, d) == Frac(n, d)

\* min(100.0, n / d)
Min100(n, d) == IF n >= 100 * d THEN Frac(100, 1) ELSE Frac(n, d)

\* max(0.0, n / d)
Max0(n, d) == IF n <= 0 THEN Frac(0, 1) ELSE Frac(n, d)

\* `if profile.biography and len(profile.biography) > 20`
BioLength == 20
\* `if profile.followers > 1000`
PopularFollowers == 1000
\* `len(basic_info.get("biography", "")) > 100`
BioDetailLen == 100

\* characters by class: "L" a letter, "D" a digit, "@", ".", "/" another
\* punctuation mark, " " a blank
Rep(c, n) == [k \in 1..n |-> c]

\* the dict _calculate_advanced_metrics starts from
InitialMetrics ==
    [of |-> "metrics",
     engagement_potential |-> Frac(0, 1), influence_score |-> Frac(0, 1),
     authenticity_score |-> Frac(0, 1), profile_completion |-> Frac(0, 1)]

\* auth_score of _calculate_advanced_metrics
AuthScore(profile) ==
    50 + (IF profile.is_verified THEN 20 ELSE 0)
       + (IF profile.biography # <<>> /\ Len(profile.biography) > BioLength
          THEN 10 ELSE 0)
       + (IF profile.external_url THEN 10 ELSE 0)
       + (IF profile.followers > PopularFollowers THEN 10 ELSE 0)

\* completion of _calculate_advanced_metrics
Completion(profile) ==
    (IF profile.full_name THEN 25 ELSE 0)
    + (IF profile.biography # <<>> THEN 25 ELSE 0)
    + (IF profile.profile_pic_url THEN 25 ELSE 0)
    + (IF profile.mediacount > 0 THEN 25 ELSE 0)

\* what _calculate_advanced_metrics returns
advanced_metrics(profile) ==
    IF profile.followers > 0
    THEN [of |-> "metrics",
          engagement_potential |->
              Min100(profile.mediacount * 1000, profile.followers),
          influence_score |->
              IF profile.followees > 0
              THEN Min100(profile.followers * 10, profile.followees)
              ELSE Frac(100, 1),
          authenticity_score |-> Min100(AuthScore(profile), 1),
          profile_completion |-> Frac(Completion(profile), 1)]
    ELSE InitialMetrics

\* the basic_info _analyze_target_profile stores: `x or "N/A"`
NotAvailable == <<"L", "/", "L">>
BasicInfo(profile) ==
    [is_private |-> profile.is_private,
     biography |-> IF profile.biography = <<>> THEN NotAvailable
                   ELSE profile.biography,
     external_url |-> IF profile.external_url THEN "url" ELSE "N/A"]

\* \b of a regular expression, before position k of the text
WordAt(text, k) == k \in 1..Len(text) /\ text[k] \in {"L", "D"}
Boundary(text, k) == WordAt(text, k - 1) # WordAt(text, k)

\* re.search(r'\b[A-Za-z0-9._%+-]+@[A-Za-z0-9.-]+\.[A-Z|a-z]{2,}\b', text)
HasEmail(text) ==
    \E i \in 1..Len(text) :
        /\ text[i] = "@"
        /\ \E a \in 1..(i - 1) :
              /\ \A k \in a..(i - 1) : text[k] \in {"L", "D", "."}
              /\ Boundary(text, a)
        /\ \E j \in (i + 2)..Len(text) :
              /\ text[j] = "."
              /\ \A k \in (i + 1)..(j - 1) : text[k] \in {"L", "D", "."}
              /\ \E e \in (j + 2)..Len(text) :
                    /\ \A k \in (j + 1)..e : text[k] = "L"
                    /\ Boundary(text, e + 1)

\* re.search(r'[\+]?[1-9]?[0-9]{7,14}', text): a run of seven digits
HasPhone(text) ==
    \E a \in 1..(Len(text) - 6) : \A k \in a..(a + 6) : text[k] = "D"

ExternalLinkPresent_Truthy(basic_info) == basic_info.external_url # ""

\* `if basic_info.get("external_url") != "N/A"`
ExternalLinkPresent(basic_info) == basic_info.external_url # "N/A"

DetailedBiography_Any(bio) == Len(bio) > 0

\* `if bio and len(bio) > 100`
DetailedBiography(bio) == bio # <<>> /\ Len(bio) > BioDetailLen

\* privacy_score of _security_analysis
privacy_score(basic_info) ==
    Max(0, 100 - (IF ~DictGet(basic_info, "is_private", TRUE) THEN 30 ELSE 0)
               - (IF ExternalLinkPresent(basic_info) THEN 10 ELSE 0)
               - (IF DetailedBiography(basic_info.biography) THEN 5 ELSE 0)
               - (IF HasEmail(basic_info.biography) THEN 20 ELSE 0)
               - (IF HasPhone(basic_info.biography) THEN 25 ELSE 0))

RECURSIVE Sum(_)
Sum(seq) == IF seq = <<>> THEN 0 ELSE Head(seq) + Sum(Tail(seq))

RECURSIVE SumSq(_)
SumSq(seq) == IF seq = <<>> THEN 0 ELSE Head(seq) * Head(seq) + SumSq(Tail(seq))

\* consistency_score of _analyze_posting_patterns, from the day intervals of
\* consecutive posts (none when there are fewer than two posts):
\* avg = S / n, variance = (n * Q - S * S) / (n * n),
\* 100 - (variance / avg) * 10 = (100 * n * S - 10 * (n * Q - S * S)) / (n * S)
consistency_score(intervals) ==
    LET n == Len(intervals)
        S == Sum(intervals)
        Q == SumSq(intervals)
    IN  IF n = 0 THEN Frac(0, 1)
        ELSE IF S > 0
             THEN Max0(100 * n * S - 10 * (n * Q - S * S), n * S)
             ELSE Frac(50, 1)

\* consistency_score of _analyze_posting_patterns in src/a.py: the score is
\* assigned only under `if avg_interval > 0` and keeps its initial 0 otherwise
a_consistency_score(intervals) ==
    LET n == Len(intervals)
        S == Sum(intervals)
        Q == SumSq(intervals)
    IN  IF n = 0 THEN Frac(0, 1)
        ELSE IF S > 0
             THEN Max0(100 * n * S - 10 * (n * Q - S * S), n * S)
             ELSE Frac(0, 1)

\* the labels of _detect_suspicious_patterns
HighFollowersLowContent == "high_followers_low_content"
AbnormalRatio == "abnormal_ratio"
SpamRatio == "many_followees_few_followers"
LowCompletion == "low_profile_completion"
NoSuspiciousPatterns == "no_suspicious_patterns"

\* `if profile.followers > 10000 and profile.mediacount < 10`
BotRule(profile) == profile.followers > 10000 /\ profile.mediacount < 10

\* ratio = profile.followers / profile.followees; `if ratio > 100`
AbnormalRule(profile) ==
    profile.followees > 0 /\ profile.followers > 100 * profile.followees

\* `elif ratio < 0.1`
SpamRule(profile) ==
    profile.followees > 0 /\ 10 * profile.followers < profile.followees

\* completion_score = self._calculate_advanced_metrics(profile)
\*     .get("profile_completion", 0); `if completion_score < 50`
CompletionRule(profile) ==
    ~FracLE(Frac(50, 1), advanced_metrics(profile).profile_completion)

\* suspicious or ["no_suspicious_patterns"]
OrMarker(suspicious) ==
    IF suspicious = <<>> THEN <<NoSuspiciousPatterns>> ELSE suspicious

\* the list `suspicious` after the appends of the rules that hold, in order
Appended(fired) ==
    (IF fired[1] THEN <<HighFollowersLowContent>> ELSE <<>>)
    \o (IF fired[2] THEN <<AbnormalRatio>>
        ELSE IF fired[3] THEN <<SpamRatio>> ELSE <<>>)
    \o (IF fired[4] THEN <<LowCompletion>> ELSE <<>>)

\* what _detect_suspicious_patterns returns
detect_suspicious_patterns(profile) ==
    OrMarker(Appended(<<BotRule(profile), AbnormalRule(profile),
                        SpamRule(profile), CompletionRule(profile)>>))

\* what _detect_suspicious_patterns of src/a.py returns: it has no completion
\* rule and returns the list as it is
a_detect_suspicious_patterns(profile) ==
    Appended(<<BotRule(profile), AbnormalRule(profile), SpamRule(profile),
               FALSE>>)

\* the functions, each called on its argument
calculate_advanced_metrics ==
    /\ pc = "metrics"
    /\ result' = advanced_metrics(inp.profile)
    /\ pc' = "returned"
    /\ UNCHANGED <<inp, budget, failed, issued, netVars, profile_data, report,
                   files, footVars>>

security_analysis ==
    /\ pc = "security"
    /\ result' = [of |-> "security",
                  privacy_score |-> Frac(privacy_score(profile_data.basic_info), 1)]
    /\ pc' = "returned"
    /\ UNCHANGED <<inp, budget, failed, issued, netVars, profile_data, report,
                   files, footVars>>

analyze_posting_patterns ==
    /\ pc = "posting"
    /\ result' = [of |-> "posting",
                  consistency_score |-> consistency_score(inp.intervals)]
    /\ pc' = "returned"
    /\ UNCHANGED <<inp, budget, failed, issued, netVars, profile_data, report,
                   files, footVars>>

a_analyze_posting_patterns ==
    /\ pc = "a_posting"
    /\ result' = [of |-> "a_posting",
                  consistency_score |-> a_consistency_score(inp.intervals)]
    /\ pc' = "returned"
    /\ UNCHANGED <<inp, budget, failed, issued, netVars, profile_data, report,
                   files, footVars>>

detect_suspicious ==
    /\ pc = "suspicious"
    /\ result' = [of |-> "suspicious",
                  suspicious_patterns |-> detect_suspicious_patterns(inp.profile)]
    /\ pc' = "returned"
    /\ UNCHANGED <<inp, budget, failed, issued, netVars, profile_data, report,
                   files, footVars>>

a_detect_suspicious ==
    /\ pc = "a_suspicious"
    /\ result' = [of |-> "a_suspicious",
                  suspicious_patterns |-> a_detect_suspicious_patterns(inp.profile)]
    /\ pc' = "returned"
    /\ UNCHANGED <<inp, budget, failed, issued, netVars, profile_data, report,
                   files, footVars>>

\* the largest small count of followers, followees and posts
MaxCount == 2
\* the largest short interval, in days, between two posts
MaxGap == 1
\* the most intervals of a post list
MaxIntervals == 3

Counts == 0..MaxCount
FollowerCounts == Counts \cup {PopularFollowers, PopularFollowers + 1}
GapDays == ((-1)..MaxGap) \cup {50}
Email == <<"L", "@", "L", ".", "L", "L">>
Biographies ==
    {<<>>, Rep("L", BioLength), Rep("L", 30), Rep("L", BioDetailLen),
     Rep("L", BioDetailLen + 1), Email, <<"L", "@", "L", ".", "L">>,
     Email \o <<"D">>, Rep("D", 6), Rep("D", 7), Rep("D", 7) \o Tail(Email),
     Rep("L", BioDetailLen) \o <<" ">> \o Email \o <<" ">> \o Rep("D", 7)}

\* the counts the suspicious-pattern runs draw: around each threshold
SuspectFollowers == Counts \cup {100, 101, 10000, 10001, 20000}
SuspectFollowees == Counts \cup {10, 11, 50, 100}
SuspectPosts == Counts \cup {5, 9, 10}

NoInput ==
    [followers |-> 0, followees |-> 0, mediacount |-> 0, is_verified |-> FALSE,
     is_private |-> FALSE, biography |-> <<>>, external_url |-> FALSE,
     full_name |-> FALSE, profile_pic_url |-> FALSE]

InitScores ==
    /\ \/ /\ pc = "metrics"
          /\ \E f \in FollowerCounts, e \in Counts, mc \in Counts,
                v \in BOOLEAN, u \in BOOLEAN, fn \in BOOLEAN, pp \in BOOLEAN,
                b \in {<<>>, Rep("L", BioLength), Rep("L", BioLength + 1)} :
               inp = [profile |->
                        [followers |-> f, followees |-> e, mediacount |-> mc,
                         is_verified |-> v, is_private |-> FALSE,
                         biography |-> b, external_url |-> u,
                         full_name |-> fn, profile_pic_url |-> pp],
                      intervals |-> <<>>]
          /\ profile_data = NoProfile
       \/ /\ pc = "security"
          /\ \E p \in BOOLEAN, u \in BOOLEAN, b \in Biographies :
               /\ inp = [profile |-> [NoInput EXCEPT !.is_private = p,
                                                     !.external_url = u,
                                                     !.biography = b],
                         intervals |-> <<>>]
               /\ profile_data = [ok |-> TRUE, basic_info |-> BasicInfo(inp.profile)]
       \/ /\ pc \in {"posting", "a_posting"}
          /\ \E n \in 0..MaxIntervals :
               \E iv \in [1..n -> GapDays] :
                  inp = [profile |-> NoInput, intervals |-> iv]
          /\ profile_data = NoProfile
       \/ /\ pc \in {"suspicious", "a_suspicious"}
          /\ \E f \in SuspectFollowers, e \in SuspectFollowees,
                mc \in SuspectPosts, fn \in BOOLEAN, pp \in BOOLEAN,
                b \in {<<>>, Rep("L", BioLength)} :
               inp = [profile |->
                        [NoInput EXCEPT !.followers = f, !.followees = e,
                                        !.mediacount = mc, !.full_name = fn,
                                        !.profile_pic_url = pp,
                                        !.biography = b],
                      intervals |-> <<>>]
          /\ profile_data = NoProfile
    /\ budget = 0
    /\ task = [t \in Tasks |-> IdleTask]
    /\ gap = NoGap
    /\ net = EmptyNet
    /\ loop = NoLoop
    /\ failed = {}
    /\ issued = {}
    /\ report = EmptyReport
    /\ result = [of |-> "running"]
    /\ files = 0
    /\ foot = EmptyFootprint
    /\ probe = NoProbe

NextScores ==
    \/ calculate_advanced_metrics
    \/ security_analysis
    \/ analyze_posting_patterns
    \/ a_analyze_posting_patterns
    \/ detect_suspicious
    \/ a_detect_suspicious

SpecScores == InitScores /\ [][NextScores]_vars

---------------------------------------------------------------------------
(* Properties *)

\* the report sections the branches of comprehensive_analysis fill
BranchSections ==
    {"network_analysis", "digital_footprint", "timeline_analysis",
     "behavioral_analysis"}

\* C1: for every target whose primary profile fetch succeeds and whose
\* profile is not private, comprehensive_analysis launches the network,
\* digital-footprint, timeline and behavioral analyses and the returned
\* report's four sections hold their outputs.
C1_BranchesLaunched ==
    (pc = "done" /\ profile_data.ok /\ ~profile_data.basic_info.is_private)
        => /\ Branches \subseteq issued
           /\ \A sec \in BranchSections : report[sec] # Empty

\* C2: when every attempt of an enumeration signals rate limiting the fetch
\* makes exactly 3 attempts with 2 backoff waits and then returns a failure:
\* the third signal ends the fetch, and no fourth attempt is ever made.
C2_BoundedAttempts ==
    \A t \in Tasks :
        /\ task[t].attempts <= 3
        /\ task[t].throttles >= 3 => Terminal(t)

\* C3: when the primary profile fetch fails (fetching or building the
\* record raises), comprehensive_analysis returns None, leaves the report
\* unpopulated, issues no secondary branch and generates no report file.
C3_PrimaryFailureReturnsNone ==
    (pc = "done" /\ "primary" \in failed)
        => /\ result = None
           /\ report = EmptyReport
           /\ issued \cap Branches = {}
           /\ files = 0

C3_Witness ==
    /\ pc = "done"
    /\ "primary" \in failed
    /\ inp.save
    /\ ~inp.private
    /\ result = None

C5_PresencePerPlatform ==
    pc = "returned" =>
        LET presence == foot.cross_platform_presence.platforms
        IN  /\ DOMAIN presence = Range(Platforms)
            /\ Cardinality(DOMAIN presence) = 4
            /\ \A p \in DOMAIN presence :
                 presence[p] = IF p \in failed THEN "error"
                               ELSE IF PlatformStatus(p) = 200 THEN "found"
                               ELSE "not_found"

C5_Witness ==
    /\ pc = "returned"
    /\ probe.order = <<3, 2, 4, 1>>
    /\ failed \cap Range(Platforms) = {"linkedin", "tiktok"}
    /\ foot.cross_platform_presence.platforms["twitter"] = "found"
    /\ foot.cross_platform_presence.platforms["tiktok"] = "error"

\* C6: in the second-degree expansion the failure of one sampled follower's
\* expansion does not abort the others: every other sampled follower is
\* expanded and has its entry in the result.
C6_ExpansionIsolated ==
    (pc \in {"common_followed", "returned"} /\ net.connections.set
        /\ inp.depth > 1)
        => \A k \in 1..Len(SampledFollowers) :
             SampledFollowers[k] # loop.raisedAt
                => /\ net.second_degree_connections.status = "data"
                   /\ SampledFollowers[k]
                         \in DOMAIN net.second_degree_connections.data

\* C7: a failed follower or followee enumeration is never reported as an
\* empty sample list, the shape of an account without followers.
C7_FailureMarked ==
    net.connections.set =>
        /\ "followers" \in failed => net.connections.followers_sample # <<>>
        /\ "followees" \in failed => net.connections.followees_sample # <<>>

\* C8: at least 0.5 time units (PacingTicks) elapse between any two
\* consecutive calls to the source client, across the follower and the
\* followee enumeration that _analyze_network runs concurrently.
C8_MinimumSpacing ==
    /\ gap.last = -1 \/ gap.last >= PacingTicks
    /\ gap.min = -1 \/ gap.min >= PacingTicks

\* C9: after each rate-limit signal the throttled enumeration issues no call
\* to the source until exactly 60 time units (BackoffTicks) have elapsed,
\* whatever the number of the attempt.
C9_FlatBackoff ==
    \A t \in Tasks :
        /\ task[t].observed \in {-1, BackoffTicks}
        /\ task[t].st = "backoff"
              => /\ task[t].waited + task[t].timer = BackoffTicks
                 /\ task[t].waited \in 0..BackoffTicks

C9_Witness ==
    \E t \in Tasks :
        /\ task[t].attempts >= 3
        /\ task[t].throttles >= 2
        /\ task[t].observed = BackoffTicks
        /\ task[t].requested >= 1

\* C10: whatever the follower / followee counts and whatever throttles and
\* retries occur, followers_sample and followees_sample have at most 50
\* entries, second_degree_connections at most 5 followers with at most 10
\* entries each, and the common-followed tallies come from at most 5
\* expanded followees.
C10_SizeBounded ==
    /\ \A t \in Tasks : Len(task[t].acc) <= 50
    /\ Len(net.connections.followers_sample) <= 50
    /\ Len(net.connections.followees_sample) <= 50
    /\ Cardinality(DOMAIN loop.second) <= 5
    /\ \A a \in DOMAIN loop.second : Len(loop.second[a]) <= 10
    /\ Cardinality(DOMAIN net.second_degree_connections.data) <= 5
    /\ \A a \in DOMAIN net.second_degree_connections.data :
         Len(net.second_degree_connections.data[a]) <= 10
    /\ loop.expanded <= 5

C10_Witness ==
    /\ pc = "returned"
    /\ inp.nFollowers > 50
    /\ inp.nFollowees > 50
    /\ Len(net.connections.followers_sample) = 50
    /\ Len(net.connections.followees_sample) = 50
    /\ Cardinality(DOMAIN net.second_degree_connections.data) = 5
    /\ \E a \in DOMAIN net.second_degree_connections.data :
         /\ Len(FollowersOf(a)) > 10
         /\ Len(net.second_degree_connections.data[a]) = 10
    /\ loop.expanded = 5

\* C11: every paginated enumeration stops as soon as its sample bound is
\* reached: within one attempt it never takes more items from the source
\* than the bound, whatever the size of the underlying list.
C11_StopsAtBound ==
    \A t \in Tasks :
        Min(task[t].requested, Len(Source(t))) <= task[t].limit

\* C12: the sample a follower / followee enumeration returns is a prefix of
\* the sequence the source returns, in the source's order, nothing skipped,
\* duplicated or reordered, also when rate-limit retries happened.
C12_SampleIsPrefix ==
    \A t \in Tasks :
        /\ Len(task[t].acc) <= Len(Source(t))
        /\ task[t].acc = Take(Source(t), Len(task[t].acc))

C12_Witness ==
    \E t \in Tasks :
        /\ task[t].st = "done"
        /\ task[t].throttles >= 2
        /\ Len(task[t].acc) >= 2
        /\ task[t].acc = Take(Source(t), Len(task[t].acc))

\* C13: when the analysis is cancelled while a fetch waits out its backoff
\* or pacing delay, the fetch ends with a cancelled failure result instead
\* of an escaping exception, and the items obtained before the cancellation
\* are retained in what the analysis returns.
C13_CancelKeepsResults ==
    \A t \in Tasks :
        task[t].st = "cancelled"
            => /\ result # "CancelledError"
               /\ net.connections.set
               /\ t = "followers"
                     => net.connections.followers_sample = task[t].acc
               /\ t = "followees"
                     => net.connections.followees_sample = task[t].acc

\* C14: for every account flagged private whose primary fetch succeeds, no
\* secondary fetch is issued, the network, digital-footprint, timeline and
\* behavioral sections of the returned report stay absent and its profile
\* section is populated, whatever the other profile fields are.
C14_PrivateSectionsAbsent ==
    (profile_data.ok /\ profile_data.basic_info.is_private
        /\ pc \notin {"start", "profiled"})
        => /\ pc \in {"report", "done"}
           /\ issued = {}
           /\ \A sec \in BranchSections : report[sec] = Empty
           /\ report.profile_analysis = profile_data
           /\ profile_data.content_analysis = "private_account"
           /\ pc = "done" => result = "report"

C14_Witness ==
    /\ pc = "done"
    /\ profile_data.ok
    /\ profile_data.basic_info.is_private
    /\ profile_data.basic_info.external_url # "N/A"
    /\ profile_data.basic_info.biography # "N/A"
    /\ result = "report"
    /\ report.network_analysis = Empty

\* a score lies in [0, 100]
InRange(score) == score.d > 0 /\ 0 <= score.n /\ score.n <= 100 * score.d

Indicator(b) == IF b THEN 1 ELSE 0

\* C15: with followee_count = 0 and any follower_count >= 0 the
\* influence_score is exactly 100; with followee_count > 0 it is
\* min(100, follower_count / followee_count * 10).
C15_InfluenceScore ==
    (pc = "returned" /\ result.of = "metrics")
        => LET f == inp.profile.followers
               e == inp.profile.followees
           IN  IF e = 0 THEN FracEq(result.influence_score, Frac(100, 1))
               ELSE IF 10 * f >= 100 * e
                    THEN FracEq(result.influence_score, Frac(100, 1))
                    ELSE FracEq(result.influence_score, Frac(10 * f, e))

\* C16: for all counts >= 0 and all values of the boolean attributes, every
\* computed score (engagement_potential, influence_score, authenticity_score,
\* profile_completion, privacy_score, consistency_score) lies in [0, 100].
C16_ScoresInRange ==
    pc = "returned" =>
        /\ result.of = "metrics"
              => /\ InRange(result.engagement_potential)
                 /\ InRange(result.influence_score)
                 /\ InRange(result.authenticity_score)
                 /\ InRange(result.profile_completion)
        /\ result.of = "security" => InRange(result.privacy_score)
        /\ result.of = "posting" => InRange(result.consistency_score)

C16_Witness ==
    /\ pc = "returned"
    /\ result.of = "metrics"
    /\ inp.profile.followers > 0
    /\ inp.profile.mediacount * 1000 > 100 * inp.profile.followers
    /\ inp.profile.followees > inp.profile.followers
    /\ result.engagement_potential = Frac(100, 1)
    /\ result.influence_score = Frac(10, 2)
    /\ result.authenticity_score = Frac(90, 1)
    /\ result.profile_completion = Frac(100, 1)

\* C17: for every profile, authenticity_score is min(100, 50 + 20 if
\* verified + 10 if the biography is longer than 20 + 10 if an external link
\* is present + 10 if follower_count > 1000); it is at least 50 for every
\* profile, one with follower_count = 0 included.
C17_AuthenticityScore ==
    (pc = "returned" /\ result.of = "metrics")
        => LET q == inp.profile
               expected == 50 + 20 * Indicator(q.is_verified)
                              + 10 * Indicator(Len(q.biography) > 20)
                              + 10 * Indicator(q.external_url)
                              + 10 * Indicator(q.followers > 1000)
           IN  /\ FracEq(result.authenticity_score,
                         Frac(Min(100, expected), 1))
               /\ FracLE(Frac(50, 1), result.authenticity_score)

\* C18: for every profile, profile_completion is 25 for a full name + 25
\* for a biography + 25 for an avatar + 25 for post_count > 0, whatever the
\* follower and followee counts.
C18_ProfileCompletion ==
    (pc = "returned" /\ result.of = "metrics")
        => LET q == inp.profile
           IN  FracEq(result.profile_completion,
                      Frac(25 * Indicator(q.full_name)
                           + 25 * Indicator(q.biography # <<>>)
                           + 25 * Indicator(q.profile_pic_url)
                           + 25 * Indicator(q.mediacount > 0), 1))

\* the profile of the example: public, no external link, a biography of 30
\* letters
ExampleProfile ==
    /\ pc = "returned"
    /\ result.of = "security"
    /\ ~inp.profile.is_private
    /\ ~inp.profile.external_url
    /\ inp.profile.biography = Rep("L", 30)

\* C19 as stated: _security_analysis on a public account with no external
\* link and a biography of length 30 without email or phone yields
\* privacy_score = 65.
C19_PrivacyScore65 ==
    ExampleProfile => FracEq(result.privacy_score, Frac(65, 1))

\* C19, amended: on that account _security_analysis yields privacy_score =
\* 70 (100 - 30); a biography of length 30 is not longer than 100 and costs
\* nothing.
C19_PrivacyScore70 ==
    ExampleProfile => FracEq(result.privacy_score, Frac(70, 1))

C19_Witness ==
    /\ ExampleProfile
    /\ profile_data.basic_info.external_url = "N/A"
    /\ result.privacy_score = Frac(70, 1)

\* C20: for every profile record, privacy_score = max(0, 100 - 30 if public
\* - 10 if an external link is present - 5 if the biography is longer than
\* 100 - 20 if it holds an email-shaped substring - 25 if it holds a
\* phone-shaped substring); an absent link or biography, stored as its
\* placeholder, costs nothing.
C20_PrivacyScoreFormula ==
    (pc = "returned" /\ result.of = "security")
        => LET q == inp.profile
               expected == 100 - 30 * Indicator(~q.is_private)
                               - 10 * Indicator(q.external_url)
                               - 5 * Indicator(Len(q.biography) > 100)
                               - 20 * Indicator(HasEmail(q.biography))
                               - 25 * Indicator(HasPhone(q.biography))
           IN  result.privacy_score = Frac(Max(0, expected), 1)

C20_Witness ==
    /\ pc = "returned"
    /\ result.of = "security"
    /\ ~inp.profile.is_private
    /\ inp.profile.external_url
    /\ Len(inp.profile.biography) > 100
    /\ HasEmail(inp.profile.biography)
    /\ HasPhone(inp.profile.biography)
    /\ result.privacy_score = Frac(10, 1)

\* C29 as stated: an enumeration with bound L that is throttled once, after
\* k items, and whose retry finishes without further throttling returns a
\* sample that still holds the k items and has exactly min(L, n) items, n
\* the length of the source.
C29_RetryKeepsItems ==
    \A t \in Tasks :
        (task[t].st = "done" /\ task[t].throttles = 1)
            => Len(task[t].acc) = Min(task[t].orig, Len(Source(t)))

\* C30: the limit handed to each retry lies between 0 and the original
\* limit, and as long as every throttled attempt had collected at least one
\* item before its signal, the number of attempts is at most the original
\* limit plus one.
C30_RetryLimitShrinks ==
    \A t \in Tasks :
        task[t].st # "idle"
            => /\ 0 <= task[t].limit
               /\ task[t].limit <= task[t].orig
               /\ Len(task[t].acc) <= task[t].limit
               /\ (task[t].barren = 0
                    => /\ task[t].limit <= task[t].orig - (task[t].attempts - 1)
                       /\ task[t].attempts <= task[t].orig + 1)

C30_Witness ==
    \E t \in Tasks :
        /\ task[t].st = "done"
        /\ task[t].orig = 2
        /\ task[t].barren = 0
        /\ task[t].throttles = 2
        /\ task[t].attempts = 3
        /\ task[t].limit = 0

\* the sequence in the opposite order
Reversed(seq) == [k \in 1..Len(seq) |-> seq[Len(seq) + 1 - k]]

\* C22: mutual_connections is the set intersection of the followers sample
\* and the followees sample: an account is in it exactly when it is in both
\* samples, it is listed once, and swapping the two samples or reordering
\* their elements gives the same set.
C22_MutualIsIntersection ==
    net.connections.set
        => LET followers == net.connections.followers_sample
               followees == net.connections.followees_sample
               accounts == Range(followers) \cup Range(followees)
           IN  /\ \A a \in accounts \cup net.mutual_connections :
                     a \in net.mutual_connections
                        <=> /\ \E i \in 1..Len(followers) : followers[i] = a
                            /\ \E j \in 1..Len(followees) : followees[j] = a
               /\ net.mutual_connections = Mutual(followees, followers)
               /\ net.mutual_connections
                     = Mutual(Reversed(followers), Reversed(followees))

C22_Witness ==
    /\ net.connections.set
    /\ Len(net.connections.followers_sample) = FollowersLimit
    /\ Len(net.connections.followees_sample) = FolloweesLimit
    /\ net.mutual_connections = {2 * k : k \in 1..25}
    /\ 1 \notin net.mutual_connections
    /\ 52 \notin net.mutual_connections

\* C23 as stated: the depth parameter governs both nested expansions: with
\* depth <= 1 neither the second-degree nor the common-followed expansion
\* runs, and neither issues a fetch.
C23_DepthGovernsExpansions ==
    inp.depth <= 1
        => /\ net.second_degree_connections = Unset
           /\ net.common_followed_accounts = Unset
           /\ loop.expanded = 0
           /\ failed \cap {"second_degree", "common_followed"} = {}

\* how often account a occurs in seq
CountIn(seq, a) == Cardinality({j \in 1..Len(seq) : seq[j] = a})

\* what the k-th expanded followee's get_followees() enumerates
Expanded(k) == FolloweesOf(SampledFollowees[k])

\* how often account a occurs in the enumerations of the first n expansions
Occurrences(a, n) ==
    Cardinality(UNION {{<<k, j>> : j \in {i \in 1..Len(Expanded(k)) :
                                            Expanded(k)[i] = a}} : k \in 1..n})

\* the count the tally keeps for account a
Kept(a) == IF a \in DOMAIN loop.count THEN loop.count[a] ELSE 0

\* the tally holds, for every account, its occurrences in the enumerations
\* consumed so far: those of the finished expansions and the first k items
\* of the one an exception ended
TallyExact ==
    LET done == loop.idx - 1
        all == UNION {Range(Expanded(k)) : k \in 1..Len(SampledFollowees)}
        open == IF "common_followed" \in failed THEN Expanded(loop.idx) ELSE <<>>
    IN  /\ DOMAIN loop.count \subseteq all
        /\ Range(loop.order) = DOMAIN loop.count
        /\ Len(loop.order) = Cardinality(DOMAIN loop.count)
        /\ loop.expanded \in {done, done + 1}
        /\ \E k \in 0..Len(open) :
              \A a \in all :
                  Kept(a) = Occurrences(a, done) + CountIn(Take(open, k), a)

\* the returned value lists the (at most 10) accounts with the highest counts
TopReported ==
    LET r == net.common_followed_accounts
        reported == {r.data[i].account : i \in 1..Len(r.data)}
    IN  IF DOMAIN loop.count = {} THEN r = NoData
        ELSE /\ r.status = "data"
             /\ Len(r.data) = Min(10, Cardinality(DOMAIN loop.count))
             /\ Cardinality(reported) = Len(r.data)
             /\ \A i \in 1..Len(r.data) :
                   /\ r.data[i].account \in DOMAIN loop.count
                   /\ r.data[i].count = loop.count[r.data[i].account]
                   /\ \A b \in DOMAIN loop.count \ reported :
                         loop.count[b] <= r.data[i].count

\* C27: the common-followed tally has no lost and no duplicated update: the
\* count of an account is the number of its occurrences in the followee
\* enumerations of the expanded followees, every update of the tally is made
\* by the one expansion that is running, and the returned value holds the at
\* most 10 accounts with the highest counts, or the no-data marker when the
\* tally is empty.
C27_TallyExact ==
    /\ [](net.connections.set /\ pc \in {"common_followed", "returned"}
            => /\ TallyExact
               /\ pc = "returned" => TopReported)
    /\ [][loop.count' # loop.count
            => /\ pc = "common_followed"
               /\ loop.expanded' = loop.expanded + 1
               /\ loop.idx' \in {loop.idx, loop.idx + 1}]_vars

C27_Witness ==
    /\ pc = "returned"
    /\ "common_followed" \notin failed
    /\ loop.expanded = ExpansionSample
    /\ Cardinality(DOMAIN loop.count) = 12
    /\ loop.count[301] = 5
    /\ loop.count[305] = 4
    /\ loop.count[312] = 1
    /\ Len(net.common_followed_accounts.data) = 10
    /\ net.common_followed_accounts.data[1] = [account |-> 301, count |-> 5]
    /\ net.common_followed_accounts.data[10].count = 2

\* the other enumeration of the gather
Other(t) == IF t = "followers" THEN "followees" ELSE "followers"

\* the sample connections records for the enumeration t
Sample(t) ==
    IF t = "followers" THEN net.connections.followers_sample
    ELSE net.connections.followees_sample

\* C28: the follower and the followee enumerations are isolated: a failure
\* (other than rate limiting) of one of them leaves the other as it is, and
\* when the other has run to completion the gather records its whole sample
\* in connections, an empty sample for the failed one, and computes
\* mutual_connections from those two.
C28_EnumerationsIsolated ==
    [][\A t \in Tasks :
          LET u == Other(t)
          IN  /\ (pc = "gather" /\ task[t].st # "raised" /\ task'[t].st = "raised")
                    => /\ task'[u] = task[u]
                       /\ pc' = "gather"
                       /\ net' = net
              /\ (pc = "gather" /\ pc' # "gather" /\ task[t].st = "raised"
                    /\ task[u].st # "raised")
                    => /\ task[u].st = "done"
                       /\ Sample(u)' = task[u].acc
                       /\ task[u].throttles = 0
                            => Sample(u)' = Take(Source(u), task[u].orig)
                       /\ Sample(t)' = <<>>
                       /\ net'.connections.set
                       /\ net'.mutual_connections = {}]_vars

C28_Witness ==
    /\ pc \in {"second_degree", "common_followed", "returned"}
    /\ failed = {"followers"}
    /\ inp.nFollowers > 0
    /\ net.connections.set
    /\ net.connections.followers_sample = <<>>
    /\ net.connections.followees_sample = [k \in 1..FolloweesLimit |-> 2 * k]
    /\ net.mutual_connections = {}

\* C24: in _analyze_domain a WHOIS that raises degrades only whois_data, to
\* an error marker: the domain stays recorded, the DNS lookups of all five
\* record types and the archive query are still issued, and their results
\* are what they are without the WHOIS failure.
C24_WhoisFailureContained ==
    foot.domain_analysis.status = "analyzed"
        => LET d == foot.domain_analysis
           IN  /\ d.whois_error <=> "whois" \in failed
               /\ d.domain = "netloc"
               /\ d.dns_asked = {"A", "AAAA", "MX", "TXT", "NS"}
               /\ d.wayback_asked
               /\ d.dns_records = DnsResult(HasRecords \ failed)
               /\ d.wayback_error <=> "wayback" \in failed

C24_Witness ==
    /\ foot.domain_analysis.status = "analyzed"
    /\ "whois" \in failed
    /\ failed \cap (RecordTypes \cup {"wayback"}) = {}
    /\ foot.domain_analysis.whois_error
    /\ foot.domain_analysis.dns_records = DnsResult({"A", "MX", "NS"})
    /\ ~foot.domain_analysis.wayback_error

\* the coroutines that have a fetch under way: the enumerations and the
\* probes handed to asyncio.gather that have not ended, and the coroutine
\* of a step that fetches one item after the other
InFlight ==
    Cardinality({t \in Tasks : task[t].st \in {"ready", "sleep", "backoff"}})
    + Cardinality({k \in DOMAIN probe.res : probe.res[k] = "pending"})
    + (IF pc \in {"second_degree", "common_followed", "external_url",
                  "domain", "scrape"} THEN 1 ELSE 0)

\* C25: at every moment the number of fetches under way is at most the
\* width of the worker pool (5): the follower / followee fan-out, the
\* nested expansions and the platform probes never exceed it.
C25_InFlightBounded == InFlight <= PoolWidth

C25_Witness ==
    /\ pc = "probing"
    /\ \A k \in 1..Len(Platforms) : probe.res[k] = "pending"
    /\ InFlight = 4

\* the rules of _detect_suspicious_patterns that hold for the profile of the
\* run, with profile_completion the sum of 25 per present item
RulesFired ==
    LET q == inp.profile
        completion == 25 * Indicator(q.full_name)
                      + 25 * Indicator(q.biography # <<>>)
                      + 25 * Indicator(q.profile_pic_url)
                      + 25 * Indicator(q.mediacount > 0)
    IN  (IF q.followers > 10000 /\ q.mediacount < 10
         THEN {HighFollowersLowContent} ELSE {})
        \cup (IF q.followees > 0 /\ q.followers > 100 * q.followees
              THEN {AbnormalRatio} ELSE {})
        \cup (IF q.followees > 0 /\ 10 * q.followers < q.followees
              THEN {SpamRatio} ELSE {})
        \cup (IF completion < 50 THEN {LowCompletion} ELSE {})

\* C21 as stated: _detect_suspicious_patterns never returns an empty list:
\* each of the four rules appends its label exactly when its condition
\* holds, several may fire together, and the marker "no suspicious patterns"
\* is returned, alone, exactly when no rule fires.
C21_LabelsMatchRules ==
    (pc = "returned" /\ result.of \in {"suspicious", "a_suspicious"})
        => LET r == result.suspicious_patterns
           IN  /\ r # <<>>
               /\ Cardinality(Range(r)) = Len(r)
               /\ Range(r) = IF RulesFired = {} THEN {NoSuspiciousPatterns}
                             ELSE RulesFired

\* the sum of the squares of n * x - S over the intervals x
RECURSIVE SumSqDev(_, _, _)
SumSqDev(seq, n, S) ==
    IF seq = <<>> THEN 0
    ELSE (n * Head(seq) - S) * (n * Head(seq) - S) + SumSqDev(Tail(seq), n, S)

\* C26 as stated: _analyze_posting_patterns yields consistency_score = 0
\* with fewer than 2 posts, 50 when the mean interval is not positive, and
\* otherwise max(0, 100 - (variance / mean) * 10) over the intervals: with
\* mean = S / n and variance = sum((x - S / n)^2) / n, the last value is
\* (100 * n^2 * S - 10 * sum((n * x - S)^2)) / (n^2 * S).
C26_ConsistencyScore ==
    (pc = "returned" /\ result.of \in {"posting", "a_posting"})
        => LET iv == inp.intervals
               n == Len(iv)
               S == Sum(iv)
               num == 100 * n * n * S - 10 * SumSqDev(iv, n, S)
               expected == IF n = 0 THEN Frac(0, 1)
                           ELSE IF S <= 0 THEN Frac(50, 1)
                           ELSE IF num <= 0 THEN Frac(0, 1)
                           ELSE Frac(num, n * n * S)
           IN  FracEq(result.consistency_score, expected)

===========================================================================
